---------------------------- MODULE Spec2Model ----------------------------
(***************************************************************************)
(* Model of lenstronomy.PointSource.point_source_param.PointSourceParam:   *)
(* the point-source codec between per-instance keyword mappings and a      *)
(* flat parameter vector (getParams / setParams / param_init / num_param / *)
(* num_param_linear), under per-instance fixed masks.                      *)
(***************************************************************************)
EXTENDS Integers, Sequences, FiniteSets, TLC

(***************************************************************************)
(* Bounds of the model.                                                    *)
(***************************************************************************)
\* longest model_list
MaxInst == 2
\* largest entry of num_point_source_list
MaxPoints == 2
\* largest start cursor handed to getParams
MaxCursor == 1

(***************************************************************************)
(* Python values.  A value is a scalar number, a list or a numpy array;    *)
(* elems holds the numbers (one for a scalar).                             *)
(***************************************************************************)
Scalar(x) == [shape |-> "scalar", elems |-> <<x>>]

List(s) == [shape |-> "list", elems |-> s]

\* np.array(seq): a fresh ndarray holding the elements of seq in order
np_array(s) == [shape |-> "ndarray", elems |-> s]

Min(a, b) == IF a <= b THEN a ELSE b

Max(a, b) == IF a >= b THEN a ELSE b

\* s[a:b] of Python for 0 <= a <= b: the elements with 0-based index a..b-1
\* that exist; never an error
Slice(s, a, b) ==
  LET hi == Min(b, Len(s))
      lo == Min(a, hi)
  IN  [j \in 1..(hi - lo) |-> s[lo + j]]

\* for i in range(n): list.append(x)
Repeat(x, n) == [j \in 1..n |-> x]

\* dict literal {}
EmptyDict == [x \in {} |-> Scalar(0)]

\* d[key] = v
Put(d, key, v) == [x \in (DOMAIN d) \cup {key} |-> IF x = key THEN v ELSE d[x]]

(***************************************************************************)
(* The object's attributes, the constructor's arguments as the caller      *)
(* passed them (ctor), the caller's kwargs_fixed list object after the     *)
(* constructor ran (caller_kwargs_fixed), and the last call with its       *)
(* arguments and outcome (last).                                           *)
(***************************************************************************)
VARIABLES model_list, num_point_sources_list, kwargs_fixed,
          fixed_magnification_list, ctor, caller_kwargs_fixed, last

vars == <<model_list, num_point_sources_list, kwargs_fixed,
          fixed_magnification_list, ctor, caller_kwargs_fixed, last>>

self == <<model_list, num_point_sources_list, kwargs_fixed,
          fixed_magnification_list, ctor, caller_kwargs_fixed>>

PositionModels == {"LENSED_POSITION", "UNLENSED"}

SourceModels == {"SOURCE_POSITION"}

\* the parameter names an instance of the model reads and writes, in order
ParamNames(model) ==
  IF model \in PositionModels THEN <<"ra_image", "dec_image", "point_amp">>
  ELSE IF model \in SourceModels THEN <<"ra_source", "dec_source", "point_amp">>
  ELSE <<>>


NoError == [type |-> "none", key |-> ""]

\* an exception leaving the method: its Python type and, for a KeyError,
\* the key
Raise(type, key) == [type |-> type, key |-> key]

(***************************************************************************)
(* __init__ and add_fix_linear.                                            *)
(***************************************************************************)
\* add_fix_linear that keeps a point_amp the caller fixed (a setdefault)
add_fix_linear_setdefault(ml, kf) ==
  [k \in 1..Len(kf) |->
     IF k <= Len(ml) /\ "point_amp" \notin DOMAIN kf[k]
     THEN Put(kf[k], "point_amp", Scalar(1))
     ELSE kf[k]]

\* for k, model in enumerate(self.model_list): kwargs_fixed[k]['point_amp'] = 1
add_fix_linear(ml, kf) ==
  [k \in 1..Len(kf) |-> IF k <= Len(ml) THEN Put(kf[k], "point_amp", Scalar(1))
                                         ELSE kf[k]]

\* __init__ with the default of num_point_source_list set to ones
init_default_one(ml, kf, nps, linear_solver, fml) ==
  LET fixed == IF linear_solver THEN add_fix_linear(ml, kf) ELSE kf
  IN  [model_list |-> ml,
       num_point_sources_list |->
          IF nps.given THEN nps.val ELSE Repeat(1, Len(ml)),
       kwargs_fixed |-> fixed,
       caller_kwargs_fixed |-> fixed,
       fixed_magnification_list |->
          IF fml.given THEN [set |-> FALSE, val |-> <<>>]
                       ELSE [set |-> TRUE, val |-> Repeat(FALSE, Len(ml))]]

\* The attributes after construction.  add_fix_linear writes into the
\* caller's mappings and returns the caller's list, so self.kwargs_fixed
\* and the caller's list are one object in either branch.
__init__(ml, kf, nps, linear_solver, fml) ==
  LET fixed == IF linear_solver THEN add_fix_linear(ml, kf) ELSE kf
  IN  [model_list |-> ml,
       num_point_sources_list |->
          IF nps.given THEN nps.val ELSE Repeat(0, Len(ml)),
       kwargs_fixed |-> fixed,
       caller_kwargs_fixed |-> fixed,
       fixed_magnification_list |->
          IF fml.given THEN [set |-> FALSE, val |-> <<>>]
                       ELSE [set |-> TRUE, val |-> Repeat(FALSE, Len(ml))]]

(***************************************************************************)
(* num_param.                                                              *)
(***************************************************************************)
\* if not name in kwargs_fixed: num += n; n times list.append(name)
num_param_array(acc, name, kf, n) ==
  IF name \notin DOMAIN kf
  THEN [num |-> acc.num + n, list |-> acc.list \o Repeat(name, n)]
  ELSE acc

\* if not name in kwargs_fixed: num += 1; list.append(name)
num_param_scalar(acc, name, kf) ==
  IF name \notin DOMAIN kf
  THEN [num |-> acc.num + 1, list |-> Append(acc.list, name)]
  ELSE acc

\* num_param_instance with dec_image counted before ra_image
num_param_instance_swapped(acc, k) ==
  LET model == model_list[k]
      kf == kwargs_fixed[k]
      n == num_point_sources_list[k]
      a1 == IF model \in PositionModels
            THEN num_param_array(
                   num_param_array(
                     num_param_array(acc, "dec_image", kf, n),
                     "ra_image", kf, n),
                   "point_amp", kf, n)
            ELSE acc
  IN  IF model \in SourceModels
      THEN num_param_scalar(
             num_param_scalar(
               num_param_scalar(a1, "ra_source", kf),
               "dec_source", kf),
             "point_amp", kf)
      ELSE a1

\* the body of the loop over the instances
num_param_instance(acc, k) ==
  LET model == model_list[k]
      kf == kwargs_fixed[k]
      n == num_point_sources_list[k]
      a1 == IF model \in PositionModels
            THEN num_param_array(
                   num_param_array(
                     num_param_array(acc, "ra_image", kf, n),
                     "dec_image", kf, n),
                   "point_amp", kf, n)
            ELSE acc
  IN  IF model \in SourceModels
      THEN num_param_scalar(
             num_param_scalar(
               num_param_scalar(a1, "ra_source", kf),
               "dec_source", kf),
             "point_amp", kf)
      ELSE a1

RECURSIVE num_param_loop(_, _)
num_param_loop(acc, k) ==
  IF k > Len(model_list) THEN acc
  ELSE num_param_loop(num_param_instance(acc, k), k + 1)

\* returns (num, list)
num_param == num_param_loop([num |-> 0, list |-> <<>>], 1)

(***************************************************************************)
(* getParams.  st: the kwargs_list built so far, the kwargs of the current *)
(* instance, the cursor i, the exception raised (if any) and the set of    *)
(* 0-based positions of args that were read.                               *)
(***************************************************************************)
\* getParams_array with "i += n" left out
getParams_array_no_advance(st, name, kf, args, n) ==
  IF st.err # NoError THEN st
  ELSE IF name \notin DOMAIN kf
  THEN [st EXCEPT !.kwargs = Put(@, name, np_array(Slice(args, st.i, st.i + n))),
                  !.read = @ \cup {j \in st.i..(st.i + n - 1) : j < Len(args)}]
  ELSE [st EXCEPT !.kwargs = Put(@, name, kf[name])]

\* if not name in kwargs_fixed:
\*     kwargs[name] = np.array(args[i:i + n]); i += n
\* else: kwargs[name] = kwargs_fixed[name]
getParams_array(st, name, kf, args, n) ==
  IF st.err # NoError THEN st
  ELSE IF name \notin DOMAIN kf
  THEN [st EXCEPT !.kwargs = Put(@, name, np_array(Slice(args, st.i, st.i + n))),
                  !.i = @ + n,
                  !.read = @ \cup {j \in st.i..(st.i + n - 1) : j < Len(args)}]
  ELSE [st EXCEPT !.kwargs = Put(@, name, kf[name])]

\* getParams_scalar that reads the vector whether the name is fixed or not
getParams_scalar_ignore_fixed(st, name, kf, args) ==
  IF st.err # NoError THEN st
  ELSE IF st.i >= Len(args)
  THEN [st EXCEPT !.err = Raise("IndexError", "")]
  ELSE [st EXCEPT !.kwargs = Put(@, name, Scalar(args[st.i + 1])),
                  !.i = @ + 1,
                  !.read = @ \cup {st.i}]

\* getParams_scalar with "i += 1" left out
getParams_scalar_no_advance(st, name, kf, args) ==
  IF st.err # NoError THEN st
  ELSE IF name \notin DOMAIN kf
  THEN IF st.i >= Len(args)
       THEN [st EXCEPT !.err = Raise("IndexError", "")]
       ELSE [st EXCEPT !.kwargs = Put(@, name, Scalar(args[st.i + 1])),
                       !.read = @ \cup {st.i}]
  ELSE [st EXCEPT !.kwargs = Put(@, name, kf[name])]

\* if not name in kwargs_fixed: kwargs[name] = args[i]; i += 1
\* else: kwargs[name] = kwargs_fixed[name]
getParams_scalar(st, name, kf, args) ==
  IF st.err # NoError THEN st
  ELSE IF name \notin DOMAIN kf
  THEN IF st.i >= Len(args)
       THEN [st EXCEPT !.err = Raise("IndexError", "")]
       ELSE [st EXCEPT !.kwargs = Put(@, name, Scalar(args[st.i + 1])),
                       !.i = @ + 1,
                       !.read = @ \cup {st.i}]
  ELSE [st EXCEPT !.kwargs = Put(@, name, kf[name])]

\* the body of the loop over the instances
getParams_instance(st, k, args) ==
  LET model == model_list[k]
      kf == kwargs_fixed[k]
      n == num_point_sources_list[k]
      s0 == [st EXCEPT !.kwargs = EmptyDict]
      s1 == IF model \in PositionModels
            THEN getParams_array(
                   getParams_array(
                     getParams_array(s0, "ra_image", kf, args, n),
                     "dec_image", kf, args, n),
                   "point_amp", kf, args, n)
            ELSE s0
      s2 == IF model \in SourceModels
            THEN getParams_scalar(
                   getParams_scalar(
                     getParams_scalar(s1, "ra_source", kf, args),
                     "dec_source", kf, args),
                   "point_amp", kf, args)
            ELSE s1
  IN  IF s2.err # NoError THEN s2
      ELSE [s2 EXCEPT !.kwargs_list = Append(@, s2.kwargs)]

RECURSIVE getParams_loop(_, _, _)
getParams_loop(st, k, args) ==
  IF k > Len(model_list) \/ st.err # NoError THEN st
  ELSE getParams_loop(getParams_instance(st, k, args), k + 1, args)

\* returns (kwargs_list, i), or raises
getParams(args, i) ==
  LET st == getParams_loop([kwargs_list |-> <<>>, kwargs |-> EmptyDict, i |-> i,
                            err |-> NoError, read |-> {}], 1, args)
  IN  [kwargs_list |-> IF st.err = NoError THEN st.kwargs_list ELSE <<>>,
       i |-> IF st.err = NoError THEN st.i ELSE 0,
       err |-> st.err,
       read |-> st.read]

(***************************************************************************)
(* setParams.  st: the args list built so far and the exception raised.    *)
(***************************************************************************)
\* setParams_array with the slice [0:n] left out
setParams_array_no_slice(st, name, kf, kwargs, n) ==
  IF st.err # NoError \/ name \in DOMAIN kf THEN st
  ELSE IF name \notin DOMAIN kwargs
  THEN [st EXCEPT !.err = Raise("KeyError", name)]
  ELSE [st EXCEPT !.args = @ \o kwargs[name].elems]

\* if not name in kwargs_fixed:
\*     for x in kwargs[name][0:n]: args.append(x)
setParams_array(st, name, kf, kwargs, n) ==
  IF st.err # NoError \/ name \in DOMAIN kf THEN st
  ELSE IF name \notin DOMAIN kwargs
  THEN [st EXCEPT !.err = Raise("KeyError", name)]
  ELSE [st EXCEPT !.args = @ \o Slice(kwargs[name].elems, 0, n)]

\* if not name in kwargs_fixed: args.append(kwargs[name])
setParams_scalar(st, name, kf, kwargs) ==
  IF st.err # NoError \/ name \in DOMAIN kf THEN st
  ELSE IF name \notin DOMAIN kwargs
  THEN [st EXCEPT !.err = Raise("KeyError", name)]
  ELSE [st EXCEPT !.args = Append(@, kwargs[name].elems[1])]

\* the body of the loop over the instances
setParams_instance(st, k, kwargs_list) ==
  LET model == model_list[k]
      kwargs == kwargs_list[k]
      kf == kwargs_fixed[k]
      n == num_point_sources_list[k]
      s1 == IF model \in PositionModels
            THEN setParams_array(
                   setParams_array(
                     setParams_array(st, "ra_image", kf, kwargs, n),
                     "dec_image", kf, kwargs, n),
                   "point_amp", kf, kwargs, n)
            ELSE st
  IN  IF model \in SourceModels
      THEN setParams_scalar(
             setParams_scalar(
               setParams_scalar(s1, "ra_source", kf, kwargs),
               "dec_source", kf, kwargs),
             "point_amp", kf, kwargs)
      ELSE s1

RECURSIVE setParams_loop(_, _, _)
setParams_loop(st, k, kwargs_list) ==
  IF k > Len(model_list) \/ st.err # NoError THEN st
  ELSE setParams_loop(setParams_instance(st, k, kwargs_list), k + 1, kwargs_list)

\* returns args, or raises
setParams(kwargs_list) ==
  LET st == setParams_loop([args |-> <<>>, err |-> NoError], 1, kwargs_list)
  IN  [args |-> IF st.err = NoError THEN st.args ELSE <<>>, err |-> st.err]

(***************************************************************************)
(* param_init.  st: the mean and sigma lists built so far and the          *)
(* exception raised.                                                       *)
(***************************************************************************)
\* param_init_array that looks the sigma field up before the loop
param_init_array_eager_sigma(st, name, sigma_name, kf, kwargs, n) ==
  IF st.err # NoError \/ name \in DOMAIN kf THEN st
  ELSE IF name \notin DOMAIN kwargs
  THEN [st EXCEPT !.err = Raise("KeyError", name)]
  ELSE IF sigma_name \notin DOMAIN kwargs
  THEN [st EXCEPT !.err = Raise("KeyError", sigma_name)]
  ELSE LET pos == Slice(kwargs[name].elems, 0, n)
       IN  [st EXCEPT !.mean = @ \o pos,
                      !.sigma = @ \o Repeat(kwargs[sigma_name].elems[1],
                                            Len(pos))]

\* if not name in kwargs_fixed:
\*     for x in kwargs[name][0:n]:
\*         mean.append(x); sigma.append(kwargs[sigma_name])
param_init_array(st, name, sigma_name, kf, kwargs, n) ==
  IF st.err # NoError \/ name \in DOMAIN kf THEN st
  ELSE IF name \notin DOMAIN kwargs
  THEN [st EXCEPT !.err = Raise("KeyError", name)]
  ELSE LET pos == Slice(kwargs[name].elems, 0, n)
       IN  IF Len(pos) = 0 THEN st
           ELSE IF sigma_name \notin DOMAIN kwargs
           THEN [st EXCEPT !.err = Raise("KeyError", sigma_name)]
           ELSE [st EXCEPT !.mean = @ \o pos,
                           !.sigma = @ \o Repeat(kwargs[sigma_name].elems[1],
                                                 Len(pos))]

\* if not name in kwargs_fixed:
\*     mean.append(kwargs[name]); sigma.append(kwargs[sigma_name])
param_init_scalar(st, name, sigma_name, kf, kwargs) ==
  IF st.err # NoError \/ name \in DOMAIN kf THEN st
  ELSE IF name \notin DOMAIN kwargs
  THEN [st EXCEPT !.err = Raise("KeyError", name)]
  ELSE IF sigma_name \notin DOMAIN kwargs
  THEN [st EXCEPT !.err = Raise("KeyError", sigma_name)]
  ELSE [st EXCEPT !.mean = Append(@, kwargs[name].elems[1]),
                  !.sigma = Append(@, kwargs[sigma_name].elems[1])]

\* param_init_instance that takes pos_sigma for point_amp too
param_init_instance_pos_sigma(st, k, kwargs_mean_list) ==
  LET model == model_list[k]
      kwargs == kwargs_mean_list[k]
      kf == kwargs_fixed[k]
      n == num_point_sources_list[k]
      s1 == IF model \in PositionModels
            THEN param_init_array(
                   param_init_array(
                     param_init_array(st, "ra_image", "pos_sigma", kf, kwargs, n),
                     "dec_image", "pos_sigma", kf, kwargs, n),
                   "point_amp", "pos_sigma", kf, kwargs, n)
            ELSE st
  IN  IF model \in SourceModels
      THEN param_init_scalar(
             param_init_scalar(
               param_init_scalar(s1, "ra_source", "pos_sigma", kf, kwargs),
               "dec_source", "pos_sigma", kf, kwargs),
             "point_amp", "pos_sigma", kf, kwargs)
      ELSE s1

\* the body of the loop over the instances
param_init_instance(st, k, kwargs_mean_list) ==
  LET model == model_list[k]
      kwargs == kwargs_mean_list[k]
      kf == kwargs_fixed[k]
      n == num_point_sources_list[k]
      s1 == IF model \in PositionModels
            THEN param_init_array(
                   param_init_array(
                     param_init_array(st, "ra_image", "pos_sigma", kf, kwargs, n),
                     "dec_image", "pos_sigma", kf, kwargs, n),
                   "point_amp", "point_amp_sigma", kf, kwargs, n)
            ELSE st
  IN  IF model \in SourceModels
      THEN param_init_scalar(
             param_init_scalar(
               param_init_scalar(s1, "ra_source", "pos_sigma", kf, kwargs),
               "dec_source", "pos_sigma", kf, kwargs),
             "point_amp", "point_amp_sigma", kf, kwargs)
      ELSE s1

RECURSIVE param_init_loop(_, _, _)
param_init_loop(st, k, kwargs_mean_list) ==
  IF k > Len(model_list) \/ st.err # NoError THEN st
  ELSE param_init_loop(param_init_instance(st, k, kwargs_mean_list), k + 1,
                       kwargs_mean_list)

\* returns (mean, sigma), or raises
param_init(kwargs_mean_list) ==
  LET st == param_init_loop([mean |-> <<>>, sigma |-> <<>>, err |-> NoError], 1,
                            kwargs_mean_list)
  IN  [mean |-> IF st.err = NoError THEN st.mean ELSE <<>>,
       sigma |-> IF st.err = NoError THEN st.sigma ELSE <<>>,
       err |-> st.err]

(***************************************************************************)
(* num_param_linear.                                                       *)
(***************************************************************************)
RECURSIVE num_param_linear_loop(_, _)
num_param_linear_loop(num, k) ==
  IF k > Len(model_list) THEN num
  ELSE num_param_linear_loop(
         IF fixed_magnification_list.val[k] = TRUE THEN num + 1
         ELSE num + num_point_sources_list[k],
         k + 1)

\* returns num; self._fixed_magnification_list is read in the loop, so a
\* missing attribute raises only when model_list is not empty
num_param_linear ==
  IF Len(model_list) > 0 /\ ~fixed_magnification_list.set
  THEN [num |-> 0, err |-> Raise("AttributeError", "_fixed_magnification_list")]
  ELSE [num |-> num_param_linear_loop(0, 1), err |-> NoError]

(***************************************************************************)
(* The inputs of the constructor and of the calls.  Every number of a      *)
(* keyword mapping, a fixed mask or a flat vector is different from the    *)
(* others, so that a value in the wrong place shows.                       *)
(***************************************************************************)
ModelNames == PositionModels \cup SourceModels

SigmaNames == {"pos_sigma", "point_amp_sigma"}

Range(s) == {s[p] : p \in DOMAIN s}

NameIndex(model, name) ==
  CHOOSE p \in DOMAIN ParamNames(model) : ParamNames(model)[p] = name

\* the number of element j of parameter number p of instance k
KwargsValue(k, p, j) == 100 * k + 10 * p + j

\* the value of a parameter of an instance of the model: an array of len
\* numbers for a position model, one number for a source model
ValueInput(base, k, model, name, len) ==
  LET p == NameIndex(model, name)
  IN  IF model \in PositionModels
      THEN List([j \in 1..len |-> base + KwargsValue(k, p, j)])
      ELSE Scalar(base + KwargsValue(k, p, 0))

\* kwargs_fixed[k] of the caller: the parameters numbered in fixed, each
\* with its fixed value
FixedInput(k, model, fixed, len) ==
  [name \in {ParamNames(model)[p] : p \in fixed \cap DOMAIN ParamNames(model)}
     |-> ValueInput(500, k, model, name, len)]

\* num_point_source_list: omitted (None), or a list of counts
NumPointSourceInputs(len) ==
  {[given |-> FALSE, val |-> <<>>]}
    \cup {[given |-> TRUE, val |-> v] : v \in [1..len -> 0..MaxPoints]}

\* the array-valued entries of kwargs_list have NumPointsPerInstance[k] + d
\* elements
KwargsInput(d) ==
  [k \in 1..Len(model_list) |->
     [name \in Range(ParamNames(model_list[k])) |->
        ValueInput(0, k, model_list[k], name,
                   Max(0, num_point_sources_list[k] + d))]]

\* kwargs_mean_list: kwargs_list with the sigma fields, but for the fields
\* miss of instance missk
KwargsMeanInput(d, missk, miss) ==
  [k \in 1..Len(model_list) |->
     [name \in Range(ParamNames(model_list[k]))
               \cup (SigmaNames \ (IF k = missk THEN miss ELSE {})) |->
        IF name = "pos_sigma" THEN Scalar(1000 + 10 * k + 1)
        ELSE IF name = "point_amp_sigma" THEN Scalar(1000 + 10 * k + 2)
        ELSE ValueInput(0, k, model_list[k], name,
                        Max(0, num_point_sources_list[k] + d))]]

\* a flat vector of len numbers
ArgsInput(len) == [j \in 1..len |-> 2000 + j]

\* how far the length of an input array or vector is from the expected one
MaxSlack == 1

Slack == (0 - MaxSlack)..MaxSlack

(***************************************************************************)
(* The state after __init__.                                               *)
(***************************************************************************)
NoCall ==
  [op |-> "__init__", args |-> <<>>, i |-> 0, kwargs_list |-> <<>>,
   out_kwargs |-> <<>>, out_i |-> 0, out_args |-> <<>>, out_sigma |-> <<>>,
   out_num |-> 0, out_labels |-> <<>>, err |-> NoError, read |-> {}]

Constructed(ml, kf, nps, linear_solver, fml) ==
  LET obj == __init__(ml, kf, nps, linear_solver, fml)
  IN  /\ model_list = obj.model_list
      /\ num_point_sources_list = obj.num_point_sources_list
      /\ kwargs_fixed = obj.kwargs_fixed
      /\ fixed_magnification_list = obj.fixed_magnification_list
      /\ caller_kwargs_fixed = obj.caller_kwargs_fixed
      /\ ctor = [model_list |-> ml, kwargs_fixed |-> kf,
                 num_point_source_list |-> nps,
                 linear_solver |-> linear_solver,
                 fixed_magnification_list |-> fml]
      /\ last = NoCall

Init ==
  \E len \in 0..MaxInst :
    \E ml \in [1..len -> ModelNames], fixed \in [1..len -> SUBSET (1..3)],
       nps \in NumPointSourceInputs(len), linear_solver \in BOOLEAN :
      Constructed(ml,
                  [k \in 1..len |->
                     FixedInput(k, ml[k], fixed[k],
                                IF nps.given THEN nps.val[k] ELSE MaxPoints)],
                  nps, linear_solver, [given |-> FALSE, val |-> <<>>])

(***************************************************************************)
(* The calls.  A call is made when no result is pending; the caller then   *)
(* drops the result (Return) or, for a packed vector, unpacks it.          *)
(***************************************************************************)
Idle == last = NoCall

NumParam ==
  /\ Idle
  /\ last' = [NoCall EXCEPT !.op = "num_param",
                            !.out_num = num_param.num,
                            !.out_labels = num_param.list]
  /\ UNCHANGED self

NumParamLinear ==
  /\ Idle
  /\ last' = [NoCall EXCEPT !.op = "num_param_linear",
                            !.out_num = num_param_linear.num,
                            !.err = num_param_linear.err]
  /\ UNCHANGED self

SetParams ==
  \E d \in Slack :
    Idle /\
    LET r == setParams(KwargsInput(d))
    IN  /\ last' = [NoCall EXCEPT !.op = "setParams",
                                  !.kwargs_list = KwargsInput(d),
                                  !.out_args = r.args,
                                  !.err = r.err]
        /\ UNCHANGED self

\* getParams that fills the codec's own mask mappings instead of fresh ones
GetParams_into_mask ==
  \E i \in 0..MaxCursor, d \in Slack :
    /\ Idle
    /\ i + num_param.num + d >= 0
    /\ LET args == ArgsInput(i + num_param.num + d)
           r == getParams(args, i)
       IN  /\ last' = [NoCall EXCEPT !.op = "getParams",
                                     !.args = args,
                                     !.i = i,
                                     !.out_kwargs = r.kwargs_list,
                                     !.out_i = r.i,
                                     !.err = r.err,
                                     !.read = r.read]
           /\ kwargs_fixed' = r.kwargs_list
           /\ caller_kwargs_fixed' = r.kwargs_list
    /\ UNCHANGED <<model_list, num_point_sources_list,
                   fixed_magnification_list, ctor>>

\* getParams on a flat vector of any length
GetParams ==
  \E i \in 0..MaxCursor, d \in Slack :
    /\ Idle
    /\ i + num_param.num + d >= 0
    /\ LET args == ArgsInput(i + num_param.num + d)
           r == getParams(args, i)
       IN  last' = [NoCall EXCEPT !.op = "getParams",
                                  !.args = args,
                                  !.i = i,
                                  !.out_kwargs = r.kwargs_list,
                                  !.out_i = r.i,
                                  !.err = r.err,
                                  !.read = r.read]
    /\ UNCHANGED self

\* getParams(args, 0) on the vector the preceding setParams returned
GetParamsOfSetParams ==
  /\ last.op = "setParams"
  /\ last.err = NoError
  /\ LET r == getParams(last.out_args, 0)
     IN  last' = [last EXCEPT !.op = "setParams;getParams",
                              !.args = last.out_args,
                              !.out_kwargs = r.kwargs_list,
                              !.out_i = r.i,
                              !.err = r.err,
                              !.read = r.read]
  /\ UNCHANGED self

ParamInit ==
  \E d \in Slack, missk \in 1..MaxInst, miss \in SUBSET SigmaNames :
    Idle /\
    LET r == param_init(KwargsMeanInput(d, missk, miss))
    IN  /\ last' = [NoCall EXCEPT !.op = "param_init",
                                  !.kwargs_list = KwargsMeanInput(d, missk, miss),
                                  !.out_args = r.mean,
                                  !.out_sigma = r.sigma,
                                  !.err = r.err]
        /\ UNCHANGED self

\* the caller is done with the result of the last call
Return ==
  /\ ~Idle
  /\ last' = NoCall
  /\ UNCHANGED self

Next ==
  \/ NumParam
  \/ NumParamLinear
  \/ SetParams
  \/ GetParams
  \/ GetParamsOfSetParams
  \/ ParamInit
  \/ Return

Spec == Init /\ [][Next]_vars

(***************************************************************************)
(* The positional contract the properties are stated against: the slots    *)
(* of the flat vector in instance order, within an instance in the order   *)
(* of its parameter names, within an array in element order.  A slot is    *)
(* (instance k, parameter name, element j).                                *)
(***************************************************************************)
Instances == 1..Len(model_list)

IsFree(k, name) == name \notin DOMAIN kwargs_fixed[k]

Known(k) == model_list[k] \in ModelNames

\* the slots one free parameter occupies: NumPointsPerInstance[k] for an
\* array of a position model, one for a scalar of a source model
SlotCount(k) ==
  IF model_list[k] \in PositionModels THEN num_point_sources_list[k] ELSE 1

\* the slots of parameter number p of instance k under the masks mask
SlotsOfName(mask, k, p) ==
  LET names == ParamNames(model_list[k])
  IN  IF p \in DOMAIN names /\ names[p] \notin DOMAIN mask[k]
      THEN [j \in 1..SlotCount(k) |-> [k |-> k, name |-> names[p], j |-> j]]
      ELSE <<>>

SlotsOfInstance(mask, k) ==
  SlotsOfName(mask, k, 1) \o SlotsOfName(mask, k, 2) \o SlotsOfName(mask, k, 3)

RECURSIVE LayoutFrom(_, _)
LayoutFrom(mask, k) ==
  IF k > Len(model_list) THEN <<>>
  ELSE SlotsOfInstance(mask, k) \o LayoutFrom(mask, k + 1)

\* the slots under the masks the codec holds
Layout == LayoutFrom(kwargs_fixed, 1)

\* the slots the masks the caller handed to the constructor leave free
CallerLayout == LayoutFrom(ctor.kwargs_fixed, 1)

\* how many entries of the sequence s satisfy name = n
CountName(s, n) == Cardinality({p \in DOMAIN s : s[p] = n})

CountSlots(layout, n) == Cardinality({p \in DOMAIN layout : layout[p].name = n})

Unpacked == last.op \in {"getParams", "setParams;getParams"} /\ last.err = NoError

\* every free array-valued entry of K has exactly / at least
\* NumPointsPerInstance[k] elements
ExactLengths(K) ==
  \A k \in Instances : \A name \in Range(ParamNames(model_list[k])) :
    (IsFree(k, name) /\ model_list[k] \in PositionModels)
      => Len(K[k][name].elems) = num_point_sources_list[k]

EnoughLengths(K) ==
  \A k \in Instances : \A name \in Range(ParamNames(model_list[k])) :
    (IsFree(k, name) /\ model_list[k] \in PositionModels)
      => Len(K[k][name].elems) >= num_point_sources_list[k]

Returned(op) == last.op = op /\ last.err = NoError

(***************************************************************************)
(* C1  Round trip.  For a keyword-mapping list K whose array-valued        *)
(* entries have exactly NumPointsPerInstance[k] elements,                  *)
(* getParams(setParams(K), 0) returns a list as long as K in which every   *)
(* free parameter of every instance has the elements it has in K, in the   *)
(* same order.                                                             *)
(***************************************************************************)
C1_RoundTrip ==
  (last.op = "setParams;getParams" /\ ExactLengths(last.kwargs_list))
    => /\ last.err = NoError
       /\ Len(last.out_kwargs) = Len(last.kwargs_list)
       /\ \A k \in Instances : \A name \in Range(ParamNames(model_list[k])) :
            IsFree(k, name)
              => /\ name \in DOMAIN last.out_kwargs[k]
                 /\ last.out_kwargs[k][name].elems = last.kwargs_list[k][name].elems

\* a round trip of two instances, the first with a free array of two
\* elements, that carries at least four slots
C1_Witness ==
  /\ Returned("setParams;getParams")
  /\ ExactLengths(last.kwargs_list)
  /\ Len(model_list) = 2
  /\ model_list[1] \in PositionModels
  /\ num_point_sources_list[1] = 2
  /\ IsFree(1, "dec_image")
  /\ Len(last.args) >= 4

(***************************************************************************)
(* C2  Length invariant.  For a keyword-mapping list K whose free          *)
(* array-valued entries have at least NumPointsPerInstance[k] elements,    *)
(* len(setParams(K)) is the total num_param() returns; the surplus         *)
(* elements are dropped.                                                   *)
(***************************************************************************)
C2_LengthInvariant ==
  (last.op = "setParams" /\ EnoughLengths(last.kwargs_list))
    => /\ last.err = NoError
       /\ Len(last.out_args) = num_param.num

\* setParams of a K with a surplus element in a free array
C2_Witness ==
  /\ Returned("setParams")
  /\ \E k \in Instances :
       /\ model_list[k] \in PositionModels
       /\ IsFree(k, "ra_image")
       /\ num_point_sources_list[k] >= 1
       /\ Len(last.kwargs_list[k]["ra_image"].elems) > num_point_sources_list[k]

(***************************************************************************)
(* C3  Positional meaning of slots and labels.  num_param() returns one    *)
(* label per slot; the p-th label is the name of the parameter whose value *)
(* setParams writes at position p and getParams(args, 0) reads from        *)
(* position p; the order is instance order, then ra_image, dec_image,      *)
(* point_amp (or ra_source, dec_source, point_amp), then element order.    *)
(***************************************************************************)
C3_PositionalMeaning ==
  /\ last.op = "num_param"
       => /\ Len(last.out_labels) = last.out_num
          /\ Len(last.out_labels) = Len(Layout)
          /\ \A p \in DOMAIN Layout : last.out_labels[p] = Layout[p].name
  /\ (last.op = "setParams" /\ EnoughLengths(last.kwargs_list))
       => /\ Len(last.out_args) = Len(Layout)
          /\ \A p \in DOMAIN Layout :
               last.out_args[p]
                 = last.kwargs_list[Layout[p].k][Layout[p].name].elems[Layout[p].j]
  /\ (Returned("getParams") /\ last.i = 0 /\ Len(last.args) >= Len(Layout))
       => \A p \in DOMAIN Layout :
            last.out_kwargs[Layout[p].k][Layout[p].name].elems[Layout[p].j]
              = last.args[p]

\* the labels of two instances with free parameters in both, the first an
\* array of two elements
C3_Witness ==
  /\ last.op = "num_param"
  /\ Len(model_list) = 2
  /\ model_list[1] \in PositionModels
  /\ model_list[2] \in SourceModels
  /\ num_point_sources_list[1] = 2
  /\ IsFree(1, "ra_image") /\ IsFree(1, "dec_image")
  /\ IsFree(2, "dec_source")
  /\ last.out_num >= 5

(***************************************************************************)
(* C4  Fixed-mask exclusion, as amended.  For every instance and every     *)
(* parameter name in the fixed mask the caller supplied: setParams emits   *)
(* no slot for it, num_param counts no slot and no label for it, getParams *)
(* consumes no slot for it, and its value in the getParams output is the   *)
(* value the caller put in the mask, whatever the flat vector holds --     *)
(* except point_amp of a codec built with linear_solver=True, whose value  *)
(* is the sentinel 1.                                                      *)
(***************************************************************************)
C4_NoSlotForFixed ==
  /\ last.op = "num_param"
       => /\ last.out_num <= Len(CallerLayout)
          /\ \A name \in UNION {Range(ParamNames(m)) : m \in ModelNames} :
               CountName(last.out_labels, name) <= CountSlots(CallerLayout, name)
  /\ Returned("setParams")
       => \A k \in Instances : \A name \in DOMAIN ctor.kwargs_fixed[k] :
            \A j \in DOMAIN last.kwargs_list[k][name].elems :
              last.kwargs_list[k][name].elems[j] \notin Range(last.out_args)
  /\ Unpacked => last.out_i - last.i <= Len(CallerLayout)

C4_FixedMaskExclusion ==
  /\ C4_NoSlotForFixed
  /\ Unpacked
       => \A k \in Instances : \A name \in DOMAIN ctor.kwargs_fixed[k] :
            /\ name \in DOMAIN last.out_kwargs[k]
            /\ last.out_kwargs[k][name]
                 = IF ctor.linear_solver /\ name = "point_amp"
                   THEN Scalar(1)
                   ELSE ctor.kwargs_fixed[k][name]

\* C4 as claimed: the value of every name of the caller's mask in the
\* getParams output is the value the caller put in the mask
C4_AsClaimed ==
  /\ C4_NoSlotForFixed
  /\ Unpacked
       => \A k \in Instances : \A name \in DOMAIN ctor.kwargs_fixed[k] :
            /\ name \in DOMAIN last.out_kwargs[k]
            /\ last.out_kwargs[k][name] = ctor.kwargs_fixed[k][name]

\* getParams on a non-empty vector returned an array and a scalar the
\* caller fixed, beside free parameters
C4_Witness ==
  /\ Returned("getParams")
  /\ Len(model_list) = 2
  /\ model_list[1] \in PositionModels /\ model_list[2] \in SourceModels
  /\ num_point_sources_list[1] = 2
  /\ "ra_image" \in DOMAIN ctor.kwargs_fixed[1]
  /\ "dec_source" \in DOMAIN ctor.kwargs_fixed[2]
  /\ IsFree(1, "dec_image") /\ IsFree(2, "ra_source")
  /\ last.out_kwargs[1]["ra_image"] = ctor.kwargs_fixed[1]["ra_image"]
  /\ last.read # {}

(***************************************************************************)
(* C5  Linear-amplitude override.  Built with linear_solver=True, point_amp*)
(* contributes no slot to setParams, num_param or getParams for any        *)
(* instance, whether or not the caller's mask held it, and getParams       *)
(* returns point_amp equal to the sentinel 1.  Built with                  *)
(* linear_solver=False, point_amp is free unless the caller's mask holds   *)
(* it.                                                                     *)
(***************************************************************************)
C5_LinearOverride ==
  /\ ctor.linear_solver
       => /\ last.op = "num_param" => CountName(last.out_labels, "point_amp") = 0
          /\ Returned("setParams")
               => \A k \in Instances :
                    "point_amp" \in DOMAIN last.kwargs_list[k]
                      => \A j \in DOMAIN last.kwargs_list[k]["point_amp"].elems :
                           last.kwargs_list[k]["point_amp"].elems[j]
                             \notin Range(last.out_args)
          /\ Unpacked
               => /\ last.out_i - last.i
                       = Len(CallerLayout) - CountSlots(CallerLayout, "point_amp")
                  /\ \A k \in Instances :
                       Known(k) => last.out_kwargs[k]["point_amp"] = Scalar(1)
  /\ ~ctor.linear_solver
       => /\ last.op = "num_param"
               => CountName(last.out_labels, "point_amp")
                    = CountSlots(CallerLayout, "point_amp")
          /\ \A k \in Instances :
               "point_amp" \in DOMAIN kwargs_fixed[k]
                 <=> "point_amp" \in DOMAIN ctor.kwargs_fixed[k]
          /\ (Unpacked /\ Len(last.args) >= last.i + Len(CallerLayout))
               => \A k \in Instances :
                    (Known(k) /\ "point_amp" \notin DOMAIN ctor.kwargs_fixed[k])
                      => /\ Len(last.out_kwargs[k]["point_amp"].elems) = SlotCount(k)
                         /\ Range(last.out_kwargs[k]["point_amp"].elems)
                              \subseteq Range(last.args)

\* a codec built with linear_solver=True from masks of which one holds
\* point_amp and one does not, after getParams read the vector
C5_Witness ==
  /\ Returned("getParams")
  /\ ctor.linear_solver
  /\ Len(model_list) = 2
  /\ model_list[1] \in PositionModels /\ model_list[2] \in SourceModels
  /\ num_point_sources_list[1] = 2
  /\ "point_amp" \in DOMAIN ctor.kwargs_fixed[1]
  /\ "point_amp" \notin DOMAIN ctor.kwargs_fixed[2]
  /\ last.out_kwargs[1]["point_amp"] = Scalar(1)
  /\ last.out_kwargs[2]["point_amp"] = Scalar(1)
  /\ last.read # {}

(***************************************************************************)
(* C6  Cursor threading.  getParams(args, i), when it returns, returns the *)
(* cursor i + num_param().total; unpacking from cursor 0 the vector        *)
(* setParams produced (from a K whose arrays have at least                 *)
(* NumPointsPerInstance[k] elements) ends at len(vector); with zero free   *)
(* parameters the returned cursor is i and no position of args is read.    *)
(***************************************************************************)
C6_CursorThreading ==
  /\ Unpacked => last.out_i = last.i + num_param.num
  /\ (last.op = "setParams;getParams" /\ EnoughLengths(last.kwargs_list))
       => /\ last.err = NoError
          /\ last.out_i = Len(last.args)
  /\ (last.op \in {"getParams", "setParams;getParams"} /\ num_param.num = 0)
       => /\ last.err = NoError
          /\ last.out_i = last.i
          /\ last.read = {}

\* getParams from a start cursor of 1 over array and scalar slots
C6_Witness ==
  /\ Returned("getParams")
  /\ last.i = 1
  /\ Len(model_list) = 2
  /\ model_list[1] \in SourceModels /\ model_list[2] \in PositionModels
  /\ num_point_sources_list[2] = 2
  /\ last.out_i >= 5

(***************************************************************************)
(* C7  A wrong-length vector is rejected.  Unpacking a flat vector whose   *)
(* length differs from num_param().total fails instead of returning        *)
(* keyword mappings, and a position-type instance never receives an array  *)
(* with fewer than NumPointsPerInstance[k] elements.  (Any exception       *)
(* counts as the failure here; the code has no CursorMismatchError.)       *)
(***************************************************************************)
C7_WrongLengthRejected ==
  /\ (last.op = "getParams" /\ last.i = 0 /\ Len(last.args) # num_param.num)
       => last.err # NoError
  /\ Unpacked
       => \A k \in Instances : \A name \in Range(ParamNames(model_list[k])) :
            (model_list[k] \in PositionModels /\ IsFree(k, name))
              => Len(last.out_kwargs[k][name].elems) = num_point_sources_list[k]

(***************************************************************************)
(* C8  Zero-point instances.  A LENSED_POSITION or UNLENSED instance with  *)
(* NumPointsPerInstance[k] = 0 (every instance, when num_point_source_list *)
(* is not supplied) contributes no slot and no label in num_param,         *)
(* setParams, param_init and getParams, whatever its fixed mask and        *)
(* whatever linear_solver.                                                 *)
(***************************************************************************)
\* instance k is a position instance the caller gave no points
ZeroPoint(k) ==
  /\ ctor.model_list[k] \in PositionModels
  /\ (ctor.num_point_source_list.given => ctor.num_point_source_list.val[k] = 0)

\* the numbers of the mapping K[k], its sigma fields included
ValuesOf(K, k) == UNION {Range(K[k][name].elems) : name \in DOMAIN K[k]}

C8_ZeroPointInstances ==
  /\ last.op = "num_param"
       => /\ last.out_num
               = Cardinality({p \in DOMAIN Layout : ~ZeroPoint(Layout[p].k)})
          /\ Len(last.out_labels) = last.out_num
          /\ (\A k \in Instances : ZeroPoint(k))
               => last.out_num = 0 /\ last.out_labels = <<>>
  /\ last.op \in {"setParams", "param_init"}
       => /\ \A k \in Instances :
               ZeroPoint(k)
                 => /\ ValuesOf(last.kwargs_list, k) \cap Range(last.out_args) = {}
                    /\ ValuesOf(last.kwargs_list, k) \cap Range(last.out_sigma) = {}
          /\ (\A k \in Instances : ZeroPoint(k))
               => /\ last.err = NoError
                  /\ last.out_args = <<>>
                  /\ last.out_sigma = <<>>
  /\ Unpacked
       => /\ \A k \in Instances : \A name \in Range(ParamNames(model_list[k])) :
               (ZeroPoint(k) /\ IsFree(k, name))
                 => last.out_kwargs[k][name].elems = <<>>
          /\ last.out_i - last.i
               = Cardinality({p \in DOMAIN Layout : ~ZeroPoint(Layout[p].k)})
  /\ (last.op \in {"getParams", "setParams;getParams"}
        /\ \A k \in Instances : ZeroPoint(k))
       => /\ last.err = NoError
          /\ last.out_i = last.i
          /\ last.read = {}

\* setParams of a codec built without num_point_source_list, with a free
\* array in a mapping that holds elements, beside an instance with slots
C8_Witness ==
  /\ Returned("setParams")
  /\ ~ctor.num_point_source_list.given
  /\ ~ctor.linear_solver
  /\ Len(model_list) = 2
  /\ ZeroPoint(1)
  /\ ctor.kwargs_fixed[1] = EmptyDict
  /\ Len(last.kwargs_list[1]["ra_image"].elems) >= 1
  /\ model_list[2] \in SourceModels
  /\ Len(last.out_args) = 3

(***************************************************************************)
(* C9  param_init follows the pack traversal.  For a mean-keyword list K   *)
(* (arrays of at least NumPointsPerInstance[k] elements) that carries the  *)
(* sigma fields its free slots need, param_init(K) returns (mean, sigma)   *)
(* with mean = setParams(K), len(sigma) = len(mean) = num_param().total,   *)
(* and the sigma of each slot equal to K[k]['pos_sigma'] for a position    *)
(* and K[k]['point_amp_sigma'] for an amplitude of the same instance k.    *)
(***************************************************************************)
SigmaOf(name) == IF name = "point_amp" THEN "point_amp_sigma" ELSE "pos_sigma"

\* K carries the sigma field of every slot of the layout
NeededSigma(K) ==
  \A p \in DOMAIN Layout : SigmaOf(Layout[p].name) \in DOMAIN K[Layout[p].k]

C9_ParamInitFollowsPack ==
  (last.op = "param_init" /\ EnoughLengths(last.kwargs_list)
     /\ NeededSigma(last.kwargs_list))
    => /\ last.err = NoError
       /\ last.out_args = setParams(last.kwargs_list).args
       /\ Len(last.out_args) = num_param.num
       /\ Len(last.out_sigma) = Len(last.out_args)
       /\ \A p \in DOMAIN Layout :
            last.out_sigma[p]
              = last.kwargs_list[Layout[p].k][SigmaOf(Layout[p].name)].elems[1]

\* param_init over two instances with free positions and amplitudes
C9_Witness ==
  /\ Returned("param_init")
  /\ Len(model_list) = 2
  /\ model_list[1] \in PositionModels /\ model_list[2] \in SourceModels
  /\ num_point_sources_list[1] = 2
  /\ IsFree(1, "ra_image") /\ IsFree(1, "point_amp")
  /\ IsFree(2, "dec_source") /\ IsFree(2, "point_amp")
  /\ Len(last.out_sigma) >= 6

(***************************************************************************)
(* C10  Missing sigma field, as amended.  param_init fails with the        *)
(* missing-sigma error (a KeyError naming the sigma field) exactly when    *)
(* some instance has a free parameter that emits at least one slot and     *)
(* whose sigma field is absent from that instance's mean mapping; a        *)
(* missing sigma field is no failure when every parameter that would use   *)
(* it is fixed or emits no slot.                                           *)
(***************************************************************************)
\* the slots param_init emits for K: those of the layout that K has an
\* element for
Emitted(K) ==
  {p \in DOMAIN Layout :
     Layout[p].j <= Len(K[Layout[p].k][Layout[p].name].elems)}

MissingSigma(K) ==
  {p \in Emitted(K) : SigmaOf(Layout[p].name) \notin DOMAIN K[Layout[p].k]}

IsMissingSigmaError(err) == err.type = "KeyError" /\ err.key \in SigmaNames

C10_MissingSigma ==
  last.op = "param_init"
    => /\ MissingSigma(last.kwargs_list) # {} <=> IsMissingSigmaError(last.err)
       /\ MissingSigma(last.kwargs_list) = {} => last.err = NoError
       /\ MissingSigma(last.kwargs_list) # {}
            => LET first == CHOOSE p \in MissingSigma(last.kwargs_list) :
                              \A q \in MissingSigma(last.kwargs_list) : p <= q
               IN  last.err = Raise("KeyError", SigmaOf(Layout[first].name))

\* C10 as claimed: the failure whenever a free parameter's sigma field is
\* absent, whether or not the parameter emits a slot
C10_AsClaimed ==
  last.op = "param_init"
    => /\ (\E k \in Instances : \E name \in Range(ParamNames(model_list[k])) :
             IsFree(k, name) /\ SigmaOf(name) \notin DOMAIN last.kwargs_list[k])
            => IsMissingSigmaError(last.err)
       /\ (\A k \in Instances : \A name \in Range(ParamNames(model_list[k])) :
             SigmaOf(name) \notin DOMAIN last.kwargs_list[k] => ~IsFree(k, name))
            => last.err = NoError

\* param_init raised for the point_amp_sigma missing from the second
\* instance, whose positions are fixed and whose pos_sigma is missing too,
\* after the first instance emitted its slots
C10_Witness ==
  /\ last.op = "param_init"
  /\ Len(model_list) = 2
  /\ last.err = Raise("KeyError", "point_amp_sigma")
  /\ SigmaNames \subseteq DOMAIN last.kwargs_list[1]
  /\ SigmaNames \cap DOMAIN last.kwargs_list[2] = {}
  /\ model_list[1] \in PositionModels /\ model_list[2] \in SourceModels
  /\ IsFree(1, "point_amp") /\ num_point_sources_list[1] = 2
  /\ ~IsFree(2, "ra_source") /\ ~IsFree(2, "dec_source")
  /\ IsFree(2, "point_amp")

(***************************************************************************)
(* A codec constructed with a model name the branches of getParams,        *)
(* setParams, param_init and num_param do not list.  __init__ stores the   *)
(* model list as given, whatever the names.                                *)
(***************************************************************************)
UnregisteredModels == {"NONE"}

InitUnregistered ==
  \E len \in 1..MaxInst :
    \E ml \in [1..len -> ModelNames \cup UnregisteredModels],
       fixed \in [1..len -> SUBSET (1..3)],
       nps \in NumPointSourceInputs(len), linear_solver \in BOOLEAN :
      /\ \E k \in 1..len : ml[k] \in UnregisteredModels
      /\ Constructed(ml,
                     [k \in 1..len |->
                        FixedInput(k, ml[k], fixed[k],
                                   IF nps.given THEN nps.val[k] ELSE MaxPoints)],
                     nps, linear_solver, [given |-> FALSE, val |-> <<>>])

SpecUnregistered == InitUnregistered /\ [][Next]_vars

(***************************************************************************)
(* C11  Unknown variant is an error.  On a codec one of whose model names  *)
(* is none of LENSED_POSITION, UNLENSED, SOURCE_POSITION, every num_param, *)
(* setParams, getParams and param_init fails with UnknownModelError: none  *)
(* of them returns a result in which the instance has zero parameters.     *)
(***************************************************************************)
C11_UnknownModelRejected ==
  ((\E k \in Instances : ~Known(k))
     /\ last.op \in {"num_param", "setParams", "getParams",
                     "setParams;getParams", "param_init"})
    => last.err.type = "UnknownModelError"

(***************************************************************************)
(* C12  Under-length array input is an error.  setParams and param_init    *)
(* called with a free array-valued parameter that has fewer than           *)
(* NumPointsPerInstance[k] elements fail with a length-mismatch error, and *)
(* so never return a vector shorter than the total of num_param().         *)
(***************************************************************************)
C12_UnderLengthRejected ==
  (last.op \in {"setParams", "param_init"} /\ ~EnoughLengths(last.kwargs_list))
    => /\ last.err.type = "LengthMismatchError"
       /\ ~(last.err = NoError /\ Len(last.out_args) < num_param.num)

(***************************************************************************)
(* C13  Fixed masks are stable after construction.  No getParams,          *)
(* setParams, param_init, num_param or num_param_linear call changes the   *)
(* codec's fixed masks (the fixed names and the fixed value of each, per   *)
(* instance), its model list or its NumPointsPerInstance list, so that     *)
(* num_param() returns the same total and labels before and after any      *)
(* sequence of such calls.                                                 *)
(***************************************************************************)
C13_FixedMasksStable ==
  [][/\ kwargs_fixed' = kwargs_fixed
     /\ model_list' = model_list
     /\ num_point_sources_list' = num_point_sources_list
     /\ num_param' = num_param]_vars

\* a vector has been packed and unpacked again by a codec of two instances
\* that holds a fixed value in one and counts free slots in both
C13_Witness ==
  /\ Returned("setParams;getParams")
  /\ Len(model_list) = 2
  /\ DOMAIN kwargs_fixed[1] # {}
  /\ SlotsOfInstance(kwargs_fixed, 1) # <<>>
  /\ SlotsOfInstance(kwargs_fixed, 2) # <<>>
  /\ Len(last.out_args) = num_param.num

(***************************************************************************)
(* A second codec.  The caller who constructed a codec with                *)
(* linear_solver=True constructs another one from the same kwargs_fixed    *)
(* object with linear_solver=False and asks it for num_param().  What the  *)
(* second __init__ receives is the object as the first one left it; ctor   *)
(* keeps the masks as the caller wrote them.                               *)
(***************************************************************************)
SecondCodec ==
  /\ Idle
  /\ ctor.linear_solver
  /\ LET obj == __init__(ctor.model_list, caller_kwargs_fixed,
                         ctor.num_point_source_list, FALSE,
                         ctor.fixed_magnification_list)
     IN  /\ model_list' = obj.model_list
         /\ num_point_sources_list' = obj.num_point_sources_list
         /\ kwargs_fixed' = obj.kwargs_fixed
         /\ fixed_magnification_list' = obj.fixed_magnification_list
         /\ caller_kwargs_fixed' = obj.caller_kwargs_fixed
  /\ ctor' = [ctor EXCEPT !.linear_solver = FALSE]
  /\ last' = [NoCall EXCEPT !.op = "__init__;num_param",
                            !.out_num = num_param'.num,
                            !.out_labels = num_param'.list]

NextSecond ==
  \/ NumParam
  \/ SecondCodec
  \/ Return

SpecSecond == Init /\ [][NextSecond]_vars

(***************************************************************************)
(* C14  Construction does not alter the caller's masks.  After __init__,   *)
(* with linear_solver=True too, the kwargs_fixed list the caller supplied  *)
(* holds the mappings the caller wrote, and a second codec built from the  *)
(* same object with linear_solver=False counts a point_amp slot wherever   *)
(* the caller left point_amp free.                                         *)
(***************************************************************************)
C14_CallerMasksUntouched ==
  /\ caller_kwargs_fixed = ctor.kwargs_fixed
  /\ last.op = "__init__;num_param"
       => CountName(last.out_labels, "point_amp")
            = CountSlots(CallerLayout, "point_amp")

(***************************************************************************)
(* A codec constructed with fixed_magnification_list omitted or given as   *)
(* a list of booleans, one per instance, and asked for num_param_linear(). *)
(***************************************************************************)
FixedMagnificationInputs(len) ==
  {[given |-> FALSE, val |-> <<>>]}
    \cup {[given |-> TRUE, val |-> v] : v \in [1..len -> BOOLEAN]}

InitMagnification ==
  \E len \in 0..MaxInst :
    \E ml \in [1..len -> ModelNames], fixed \in [1..len -> SUBSET (1..3)],
       nps \in NumPointSourceInputs(len), linear_solver \in BOOLEAN,
       fml \in FixedMagnificationInputs(len) :
      Constructed(ml,
                  [k \in 1..len |->
                     FixedInput(k, ml[k], fixed[k],
                                IF nps.given THEN nps.val[k] ELSE MaxPoints)],
                  nps, linear_solver, fml)

NextMagnification ==
  \/ NumParamLinear
  \/ Return

SpecMagnification == InitMagnification /\ [][NextMagnification]_vars

\* whether the caller asked for a fixed magnification of instance k
FixedMagnification(k) ==
  ctor.fixed_magnification_list.given /\ ctor.fixed_magnification_list.val[k]

\* the linear parameters of the instances k, k+1, ...: one for an instance
\* of fixed magnification, NumPointsPerInstance[k] for any other
RECURSIVE LinearCountFrom(_)
LinearCountFrom(k) ==
  IF k > Len(model_list) THEN 0
  ELSE (IF FixedMagnification(k) THEN 1 ELSE num_point_sources_list[k])
         + LinearCountFrom(k + 1)

(***************************************************************************)
(* C15  Linear-parameter count.  For every construction, with              *)
(* fixed_magnification_list omitted or given as a list of booleans,        *)
(* num_param_linear() succeeds and returns the sum over the instances k of *)
(* 1 when fixed_magnification_list[k] is True and of                       *)
(* NumPointsPerInstance[k] otherwise.                                      *)
(***************************************************************************)
C15_LinearCount ==
  last.op = "num_param_linear"
    => /\ last.err = NoError
       /\ last.out_num = LinearCountFrom(1)

=============================================================================
